---------------------------- MODULE Spec2Model ----------------------------
(***************************************************************************)
(* flake8-return: the ReturnVisitor of src/flake8_return/visitors.py.      *)
(*                                                                         *)
(* The visitor walks a Python syntax tree depth first.  Each function      *)
(* definition pushes a scope record on `_stack`; the handlers of Assign,   *)
(* Name, Try, For/While and Return fill the top scope; when the walk of    *)
(* the function's subtree is over `_check_function` reads the scope,       *)
(* appends its findings to `errors`, and the scope is popped.              *)
(*                                                                         *)
(* Python's call stack is the variable `agenda`: the nodes still to visit  *)
(* and the handler tails still to run, innermost first.                    *)
(***************************************************************************)
EXTENDS Integers, Sequences, FiniteSets, TLC

VARIABLES
    tree,         \* the module handed to the visitor (never changes)
    py38,         \* sys.version_info >= (3, 8)
    agenda,       \* pending visits and handler tails (the call stack)
    _stack,       \* ReturnVisitor._stack: one scope record per open function
    _loop_count,  \* UnnecessaryAssignMixin._loop_count
    errors,       \* Visitor.errors: the findings, in the order produced
    trace,        \* history: the push / visit / check / pop events so far
    done          \* history: per checked function, its scope and findings

vars == <<tree, py38, agenda, _stack, _loop_count, errors, trace, done>>

-----------------------------------------------------------------------------
(* Syntax trees before layout: expressions and statements without lines.   *)

\* Absent stands for Python's None in an optional field: no node is there.
Absent == [kind |-> "Absent"]
NameE(v) == [kind |-> "Name", id |-> v]
ConstE(c) == [kind |-> "Constant", value |-> c]
TupleE(es) == [kind |-> "Tuple", elts |-> es]
CallE(es) == [kind |-> "Call", elts |-> es]
SubscriptE(es) == [kind |-> "Subscript", elts |-> es]

\* the expression kinds with no expression below them
Atoms == {"Absent", "Name", "Constant"}

Stmt(k, t, v, b, h, o, inl) ==
    [kind |-> k, target |-> t, value |-> v, body |-> b, handlers |-> h,
     orelse |-> o, inline |-> inl]

Simple(k, t, v) == Stmt(k, t, v, <<>>, <<>>, <<>>, FALSE)

\* target is targets[0]: visit_Assign looks at no other target of a chained
\* assignment, and never walks the Assign node as a whole.
AssignS(t, v) == Simple("Assign", t, v)
ReturnS(v) == Simple("Return", Absent, v)
ExprS(v) == Simple("Expr", Absent, v)
PassS == Simple("Pass", Absent, Absent)
RaiseS == Simple("Raise", Absent, CallE(<<NameE("E")>>))
AssertS(v) == Simple("Assert", Absent, v)

\* The statement kinds that hold blocks, with the expressions of their header.
Compound(k, b, o) ==
    CASE k = "If" -> Stmt("If", Absent, NameE("c"), b, <<>>, o, FALSE)
      [] k = "For" -> Stmt("For", NameE("i"), NameE("items"), b, <<>>, o, FALSE)
      [] k = "AsyncFor" ->
            Stmt("AsyncFor", NameE("i"), NameE("items"), b, <<>>, o, FALSE)
      [] k = "ForInline" ->
            Stmt("For", NameE("i"), NameE("items"), b, <<>>, <<>>, TRUE)
      [] k = "While" -> Stmt("While", Absent, NameE("c"), b, <<>>, o, FALSE)
      [] k = "WhileInline" ->
            Stmt("While", Absent, NameE("c"), b, <<>>, <<>>, TRUE)
      [] k = "With" -> Stmt("With", Absent, CallE(<<NameE("cm")>>), b, <<>>, <<>>, FALSE)
      [] k = "Try" ->
            Stmt("Try", Absent, Absent, b,
                 <<Stmt("ExceptHandler", Absent, NameE("E"), o, <<>>, <<>>, FALSE)>>,
                 <<>>, FALSE)
      [] k = "FunctionDef" ->
            Stmt("FunctionDef", Absent, Absent, b, <<>>, <<>>, FALSE)
      [] k = "FunctionDefDefault" ->                       \* def g(a=x):
            Stmt("FunctionDef", Absent, NameE("x"), b, <<>>, <<>>, FALSE)
      [] k = "AsyncFunctionDef" ->
            Stmt("AsyncFunctionDef", Absent, Absent, b, <<>>, <<>>, FALSE)

\* Kinds whose second block (else) may be missing, kinds that need both
\* blocks (try/except), kinds with one block, kinds written on one line.
OptionalElse == {"If", "For", "AsyncFor"}
TwoBlocks == {"Try"}
OneLine == {"ForInline", "WhileInline"}

RECURSIVE Blocks(_, _, _)
RECURSIVE Stmts(_, _, _)
\* Every block of exactly n statements (nested ones counted) over the simple
\* statements `leaves` and the compound kinds `kinds`.
Blocks(leaves, kinds, n) ==
    IF n = 0 THEN {<<>>}
    ELSE UNION { { <<s>> \o b : s \in Stmts(leaves, kinds, k),
                                b \in Blocks(leaves, kinds, n - k) } : k \in 1..n }

Stmts(leaves, kinds, n) ==
    IF n = 1 THEN leaves
    ELSE UNION { IF k \in OneLine
                   THEN { Compound(k, b, <<>>) : b \in Blocks(leaves, {}, n - 1) }
                 ELSE IF k \in TwoBlocks
                   THEN UNION { { Compound(k, b, o) :
                                    b \in Blocks(leaves, kinds, i),
                                    o \in Blocks(leaves, kinds, n - 1 - i) } :
                                i \in 1..(n - 2) }
                 ELSE IF k \in OptionalElse
                   THEN UNION { { Compound(k, b, o) :
                                    b \in Blocks(leaves, kinds, i),
                                    o \in Blocks(leaves, kinds, n - 1 - i) } :
                                i \in 1..(n - 1) }
                 ELSE { Compound(k, b, <<>>) : b \in Blocks(leaves, kinds, n - 1) }
               : k \in kinds }

BlocksUpTo(leaves, kinds, n) == UNION { Blocks(leaves, kinds, k) : k \in 1..n }

RECURSIVE Tails(_, _, _, _)
RECURSIVE TailStmts(_, _, _, _)
\* Every block of exactly n statements whose last statement alone is drawn
\* from `leaves` and `kinds`, the blocks below it likewise; the statements
\* before a last one are drawn from `fill`.
Tails(fill, leaves, kinds, n) ==
    UNION { { f \o <<s>> : f \in [1..k -> fill],
                           s \in TailStmts(fill, leaves, kinds, n - k) } : k \in 0..(n - 1) }

TailStmts(fill, leaves, kinds, n) ==
    IF n = 1 THEN leaves
    ELSE UNION { IF k \in OptionalElse
                   THEN UNION { { Compound(k, b, o) :
                                    b \in Tails(fill, leaves, kinds, i),
                                    o \in IF i = n - 1 THEN {<<>>}
                                          ELSE Tails(fill, leaves, kinds, n - 1 - i) } :
                                i \in 1..(n - 1) }
                   ELSE { Compound(k, b, <<>>) : b \in Tails(fill, leaves, kinds, n - 1) }
               : k \in kinds }

TailsUpTo(fill, leaves, kinds, n) == UNION { Tails(fill, leaves, kinds, k) : k \in 1..n }

-----------------------------------------------------------------------------
(* Layout: the line and column the parser gives every node.  A block's     *)
(* statements take one line each, below and to the right of their header;  *)
(* the statements of a one-line loop share the header's line; an `else:`   *)
(* takes a line of its own.                                                *)

RECURSIVE PlaceExpr(_, _, _)
PlaceExpr(e, line, col) ==
    CASE e.kind = "Absent" -> e
      [] e.kind = "Name" ->
            [kind |-> e.kind, id |-> e.id, lineno |-> line, col_offset |-> col]
      [] e.kind = "Constant" ->
            [kind |-> e.kind, value |-> e.value, lineno |-> line, col_offset |-> col]
      [] OTHER ->
            [kind |-> e.kind, lineno |-> line, col_offset |-> col,
             elts |-> [i \in 1..Len(e.elts) |-> PlaceExpr(e.elts[i], line, col + i)]]

RECURSIVE EndLine(_)
\* The last line of a placed statement.
EndLine(n) ==
    IF n.orelse # <<>> THEN EndLine(n.orelse[Len(n.orelse)])
    ELSE IF n.handlers # <<>> THEN EndLine(n.handlers[Len(n.handlers)])
    ELSE IF n.body # <<>> THEN EndLine(n.body[Len(n.body)])
    ELSE n.lineno

RECURSIVE PlaceStmt(_, _, _)
RECURSIVE PlaceBlock(_, _, _)
RECURSIVE PlaceInline(_, _, _)

PlaceBlock(ss, line, col) ==
    IF ss = <<>> THEN <<>>
    ELSE LET h == PlaceStmt(Head(ss), line, col)
         IN  <<h>> \o PlaceBlock(Tail(ss), EndLine(h) + 1, col)

PlaceInline(ss, line, col) ==
    IF ss = <<>> THEN <<>>
    ELSE <<PlaceStmt(Head(ss), line, col)>> \o PlaceInline(Tail(ss), line, col + 20)

PlaceStmt(s, line, col) ==
    LET body == IF s.inline THEN PlaceInline(s.body, line, col + 20)
                ELSE PlaceBlock(s.body, line + 1, col + 4)
        e1 == IF body = <<>> THEN line ELSE EndLine(body[Len(body)])
        handlers == PlaceBlock(s.handlers, e1 + 1, col)
        e2 == IF handlers = <<>> THEN e1 ELSE EndLine(handlers[Len(handlers)])
        orelse == PlaceBlock(s.orelse, e2 + 2, col + 4)
        e3 == IF orelse = <<>> THEN e2 ELSE EndLine(orelse[Len(orelse)])
    IN  [kind |-> s.kind, lineno |-> line, col_offset |-> col,
         end_lineno |-> <<e3>>,
         target |-> PlaceExpr(s.target, line, col),
         value |-> PlaceExpr(s.value, line, col + 10),
         body |-> body, handlers |-> handlers, orelse |-> orelse]

\* A module whose body is the block ss; a module has no position.
Module(ss) ==
    [kind |-> "Module", lineno |-> 0, col_offset |-> 0, end_lineno |-> <<>>,
     target |-> Absent, value |-> Absent,
     body |-> PlaceBlock(ss, 1, 0), handlers |-> <<>>, orelse |-> <<>>]

RECURSIVE StripEnd(_)
\* The same tree from a parser that gives no end lines (Python < 3.8).
StripEnd(n) ==
    [n EXCEPT !.end_lineno = <<>>,
              !.body = [i \in 1..Len(n.body) |-> StripEnd(n.body[i])],
              !.handlers = [i \in 1..Len(n.handlers) |-> StripEnd(n.handlers[i])],
              !.orelse = [i \in 1..Len(n.orelse) |-> StripEnd(n.orelse[i])]]

-----------------------------------------------------------------------------
(* Dictionaries: defaultdict(list) and defaultdict(int) of _visit_with_stack. *)
(* A key exists once something was stored under it.                          *)

EmptyDict == [k \in {} |-> <<>>]

\* d[k].append(v) on a defaultdict(list)
DictAppend(d, k, v) ==
    [j \in DOMAIN d \cup {k} |->
        IF j = k THEN (IF k \in DOMAIN d THEN Append(d[k], v) ELSE <<v>>)
        ELSE d[j]]

\* d[k] = v
DictSet(d, k, v) == [j \in DOMAIN d \cup {k} |-> IF j = k THEN v ELSE d[j]]

NewScope ==
    [assigns |-> EmptyDict, refs |-> EmptyDict, tries |-> EmptyDict,
     loops |-> EmptyDict, returns |-> <<>>]

FunctionKinds == {"FunctionDef", "AsyncFunctionDef"}
LoopKinds == {"For", "AsyncFor", "While"}

\* utils.is_none / utils.is_false: the None and the False literal
is_none(e) == e.kind = "Constant" /\ e.value = "None"
is_false(e) == e.kind = "Constant" /\ e.value = "False"

\* Truth of an optional child (`if node.value:`): a node is there.
Present(e) == e.kind # "Absent"

error_from_node(kind, node) ==
    [kind |-> kind, lineno |-> node.lineno, col_offset |-> node.col_offset]

-----------------------------------------------------------------------------
(* The expression part of the walk.  No expression holds a statement, so    *)
(* visiting one only reaches visit_Name; the operators below take the stack *)
(* and give the stack after the visit.                                      *)

visit_NameOutermost(stk, node) ==
    IF stk # <<>>
      THEN [stk EXCEPT ![1].refs = DictAppend(@, node.id, node.lineno)]
      ELSE stk

visit_Name(stk, node) ==
    IF stk # <<>>
      THEN [stk EXCEPT ![Len(stk)].refs = DictAppend(@, node.id, node.lineno)]
      ELSE stk

RECURSIVE visit_expr(_, _)
RECURSIVE visit_exprs(_, _)
\* Visitor.visit on an expression: visit_Name on a Name, generic_visit on the rest
visit_expr(stk, e) ==
    IF e.kind = "Name" THEN visit_Name(stk, e)
    ELSE IF e.kind \in Atoms THEN stk
    ELSE visit_exprs(stk, e.elts)

visit_exprs(stk, es) ==
    IF es = <<>> THEN stk ELSE visit_exprs(visit_expr(stk, Head(es)), Tail(es))

\* generic_visit on an expression: its children in order
generic_visit_expr(stk, e) == IF e.kind \in Atoms THEN stk ELSE visit_exprs(stk, e.elts)

RECURSIVE _visit_assign_target(_, _)
RECURSIVE _visit_assign_targets(_, _)
_visit_assign_target(stk, node) ==
    IF node.kind = "Tuple" THEN _visit_assign_targets(stk, node.elts)
    ELSE IF (py38 \/ _loop_count = 0) /\ node.kind = "Name"
      THEN [stk EXCEPT ![Len(stk)].assigns = DictAppend(@, node.id, node.lineno)]
    ELSE generic_visit_expr(stk, node)

_visit_assign_targets(stk, es) ==
    IF es = <<>> THEN stk
    ELSE _visit_assign_targets(_visit_assign_target(stk, Head(es)), Tail(es))

AssignEffectNoSkip(stk, node) ==
    IF stk = <<>> THEN stk
    ELSE LET s1 == IF node.value.kind = "Name"
                     THEN [stk EXCEPT ![Len(stk)].refs =
                              DictAppend(@, node.value.id, node.value.lineno)]
                     ELSE stk
             s2 == generic_visit_expr(s1, node.value)
         IN  _visit_assign_target(s2, node.target)

\* visit_Assign as a change of the stack
AssignEffect(stk, node) ==
    IF stk = <<>> THEN stk
    ELSE LET s1 == IF node.value.kind = "Name"
                     THEN [stk EXCEPT ![Len(stk)].refs =
                              DictAppend(@, node.value.id, node.value.lineno)]
                     ELSE stk
             s2 == generic_visit_expr(s1, node.value)
         IN  IF node.target.kind = "Tuple" /\ node.value.kind # "Tuple"
               THEN s2
               ELSE _visit_assign_target(s2, node.target)

-----------------------------------------------------------------------------
(* The checks run on a scope when its function's walk is over.              *)

SortedLines(lines) == SortSeq(lines, LAMBDA a, b : a < b)

RECURSIVE ScanAssigns(_, _, _)
\* the first loop of _has_refs_before_next_assign; None is <<>>
ScanAssigns(lines, return_lineno, before_assign) ==
    IF lines = <<>> THEN [before_assign |-> before_assign, after_assign |-> <<>>]
    ELSE IF Head(lines) > return_lineno
      THEN [before_assign |-> before_assign, after_assign |-> <<Head(lines)>>]
    ELSE ScanAssigns(Tail(lines), return_lineno, Head(lines))

_has_refs_before_next_assign(scope, var_name, return_lineno) ==
    LET w == ScanAssigns(SortedLines(scope.assigns[var_name]), return_lineno, 0)
        refs == scope.refs[var_name]
    IN  \E i \in 1..Len(refs) :
           /\ refs[i] # return_lineno
           /\ IF w.after_assign # <<>> /\ w.after_assign[1] # 0
                THEN w.before_assign < refs[i] /\ refs[i] <= w.after_assign[1]
                ELSE w.before_assign < refs[i]

_has_refs_or_assigns_within_try_or_loop(scope, var_name) ==
    LET items == scope.refs[var_name] \o scope.assigns[var_name]
    IN  \E i \in 1..Len(items) :
           \/ \E try_start \in DOMAIN scope.tries :
                 try_start < items[i] /\ items[i] <= scope.tries[try_start]
           \/ \E loop_start \in DOMAIN scope.loops :
                 loop_start < items[i] /\ items[i] <= scope.loops[loop_start]

_check_unnecessary_assign(scope, node) ==
    IF node.kind # "Name" THEN <<>>
    ELSE IF node.id \notin DOMAIN scope.assigns THEN <<>>
    ELSE IF node.id \notin DOMAIN scope.refs
      THEN <<error_from_node("UnnecessaryAssign", node)>>
    ELSE IF _has_refs_before_next_assign(scope, node.id, node.lineno) THEN <<>>
    ELSE IF py38 /\ _has_refs_or_assigns_within_try_or_loop(scope, node.id) THEN <<>>
    ELSE <<error_from_node("UnnecessaryAssign", node)>>

RECURSIVE _check_unnecessary_return_none_from(_)
_check_unnecessary_return_none_from(returns) ==
    IF returns = <<>> THEN <<>>
    ELSE (IF is_none(Head(returns).value)
            THEN <<error_from_node("UnnecessaryReturnNone", Head(returns))>>
            ELSE <<>>)
         \o _check_unnecessary_return_none_from(Tail(returns))

_check_unnecessary_return_none(scope) ==
    _check_unnecessary_return_none_from(scope.returns)

RECURSIVE _check_implicit_return_value_from(_)
_check_implicit_return_value_from(returns) ==
    IF returns = <<>> THEN <<>>
    ELSE (IF ~Present(Head(returns).value)
            THEN <<error_from_node("ImplicitReturnValue", Head(returns))>>
            ELSE <<>>)
         \o _check_implicit_return_value_from(Tail(returns))

_check_implicit_return_value(scope) ==
    _check_implicit_return_value_from(scope.returns)

RECURSIVE ImplicitReturnShortCircuit(_)
ImplicitReturnShortCircuit(last_node) ==
    IF last_node.kind = "If"
      THEN IF last_node.body = <<>> \/ last_node.orelse = <<>>
             THEN <<error_from_node("ImplicitReturn", last_node)>>
             ELSE LET b == ImplicitReturnShortCircuit(last_node.body[Len(last_node.body)])
                  IN  IF b # <<>> THEN b
                      ELSE ImplicitReturnShortCircuit(
                               last_node.orelse[Len(last_node.orelse)])
    ELSE IF last_node.kind \in {"For", "AsyncFor"} /\ last_node.orelse # <<>>
      THEN ImplicitReturnShortCircuit(last_node.orelse[Len(last_node.orelse)])
    ELSE IF last_node.kind \in {"With", "AsyncWith"}
      THEN ImplicitReturnShortCircuit(last_node.body[Len(last_node.body)])
    ELSE IF last_node.kind = "Assert" /\ is_false(last_node.value) THEN <<>>
    ELSE IF last_node.kind \notin {"Return", "Raise", "While", "Try"}
      THEN <<error_from_node("ImplicitReturn", last_node)>>
    ELSE <<>>

RECURSIVE ImplicitReturnLoopsExempt(_)
ImplicitReturnLoopsExempt(last_node) ==
    IF last_node.kind = "If"
      THEN IF last_node.body = <<>> \/ last_node.orelse = <<>>
             THEN <<error_from_node("ImplicitReturn", last_node)>>
             ELSE ImplicitReturnLoopsExempt(last_node.body[Len(last_node.body)])
                  \o ImplicitReturnLoopsExempt(last_node.orelse[Len(last_node.orelse)])
    ELSE IF last_node.kind \in {"For", "AsyncFor"} /\ last_node.orelse # <<>>
      THEN ImplicitReturnLoopsExempt(last_node.orelse[Len(last_node.orelse)])
    ELSE IF last_node.kind \in {"With", "AsyncWith"}
      THEN ImplicitReturnLoopsExempt(last_node.body[Len(last_node.body)])
    ELSE IF last_node.kind = "Assert" /\ is_false(last_node.value) THEN <<>>
    ELSE IF last_node.kind \notin {"Return", "Raise", "While", "Try", "For", "AsyncFor"}
      THEN <<error_from_node("ImplicitReturn", last_node)>>
    ELSE <<>>

RECURSIVE _check_implicit_return(_)
_check_implicit_return(last_node) ==
    IF last_node.kind = "If"
      THEN IF last_node.body = <<>> \/ last_node.orelse = <<>>
             THEN <<error_from_node("ImplicitReturn", last_node)>>
             ELSE _check_implicit_return(last_node.body[Len(last_node.body)])
                  \o _check_implicit_return(last_node.orelse[Len(last_node.orelse)])
    ELSE IF last_node.kind \in {"For", "AsyncFor"} /\ last_node.orelse # <<>>
      THEN _check_implicit_return(last_node.orelse[Len(last_node.orelse)])
    ELSE IF last_node.kind \in {"With", "AsyncWith"}
      THEN _check_implicit_return(last_node.body[Len(last_node.body)])
    ELSE IF last_node.kind = "Assert" /\ is_false(last_node.value) THEN <<>>
    ELSE IF last_node.kind \notin {"Return", "Raise", "While", "Try"}
      THEN <<error_from_node("ImplicitReturn", last_node)>>
    ELSE <<>>

_result_exists(scope) ==
    \E i \in 1..Len(scope.returns) :
       Present(scope.returns[i].value) /\ ~is_none(scope.returns[i].value)

RECURSIVE CheckAssignsOfReturns(_, _)
\* the closing loop of _check_function
CheckAssignsOfReturns(scope, returns) ==
    IF returns = <<>> THEN <<>>
    ELSE (IF Present(Head(returns).value)
            THEN _check_unnecessary_assign(scope, Head(returns).value)
            ELSE <<>>)
         \o CheckAssignsOfReturns(scope, Tail(returns))

CheckFunctionBothBranches(node, scope) ==
    IF scope.returns = <<>> \/ node.body = <<>> THEN <<>>
    ELSE IF Len(node.body) = 1 /\ node.body[Len(node.body)].kind = "Return" THEN <<>>
    ELSE (IF ~_result_exists(scope) THEN _check_unnecessary_return_none(scope) ELSE <<>>)
         \o _check_implicit_return_value(scope)
         \o _check_implicit_return(node.body[Len(node.body)])
         \o CheckAssignsOfReturns(scope, scope.returns)

CheckFunctionNoExemption(node, scope) ==
    IF scope.returns = <<>> \/ node.body = <<>> THEN <<>>
    ELSE IF ~_result_exists(scope) THEN _check_unnecessary_return_none(scope)
    ELSE _check_implicit_return_value(scope)
         \o _check_implicit_return(node.body[Len(node.body)])
         \o CheckAssignsOfReturns(scope, scope.returns)

CheckFunctionAssignsFirst(node, scope) ==
    IF scope.returns = <<>> \/ node.body = <<>> THEN <<>>
    ELSE IF Len(node.body) = 1 /\ node.body[Len(node.body)].kind = "Return" THEN <<>>
    ELSE IF ~_result_exists(scope) THEN _check_unnecessary_return_none(scope)
    ELSE CheckAssignsOfReturns(scope, scope.returns)
         \o _check_implicit_return_value(scope)
         \o _check_implicit_return(node.body[Len(node.body)])

\* The findings _check_function appends to errors, in order.
_check_function(node, scope) ==
    IF scope.returns = <<>> \/ node.body = <<>> THEN <<>>
    ELSE IF Len(node.body) = 1 /\ node.body[Len(node.body)].kind = "Return" THEN <<>>
    ELSE IF ~_result_exists(scope) THEN _check_unnecessary_return_none(scope)
    ELSE _check_implicit_return_value(scope)
         \o _check_implicit_return(node.body[Len(node.body)])
         \o CheckAssignsOfReturns(scope, scope.returns)

-----------------------------------------------------------------------------
(* The walk.                                                                *)

\* The statements generic_visit reaches from a statement, in field order.
StmtChildren(n) == n.body \o n.handlers \o n.orelse

Pos(n) == <<n.lineno, n.col_offset>>
Event(e, n) == [ev |-> e, pos |-> Pos(n)]

RECURSIVE Descend(_, _)
\* the statement reached from n by taking, in turn, the path's child numbers
Descend(n, path) ==
    IF path = <<>> THEN n ELSE Descend(StmtChildren(n)[Head(path)], Tail(path))

NodeAt(path) == Descend(tree, path)

\* the node the walk is at
Here == NodeAt(Head(agenda).path)

\* the visits of the children of the statement at `path`, in order
VisitItems(path) ==
    [i \in 1..Len(StmtChildren(NodeAt(path))) |->
        [op |-> "visit", path |-> Append(path, i)]]

\* generic_visit on a statement, as far as its header goes: the expressions of
\* the header come before the blocks in every statement's field order.
HeaderEffect(stk, n) == visit_expr(visit_expr(stk, n.target), n.value)

Visiting(kinds) ==
    /\ agenda # <<>>
    /\ Head(agenda).op = "visit"
    /\ Here.kind \in kinds

PushNothing(stk) == stk
PushScope(stk) == Append(stk, NewScope)

\* _visit_with_stack up to its generic_visit
_visit_with_stack ==
    /\ Visiting(FunctionKinds)
    /\ LET node == Here
       IN  /\ _stack' = HeaderEffect(PushScope(_stack), node)
           /\ agenda' = VisitItems(Head(agenda).path)
                          \o <<[op |-> "check", path |-> Head(agenda).path]>> \o Tail(agenda)
           /\ trace' = trace \o <<Event("visit", node), Event("push", node)>>
    /\ UNCHANGED <<tree, py38, _loop_count, errors, done>>

PopNothing(stk) == stk
PopScope(stk) == SubSeq(stk, 1, Len(stk) - 1)

\* _visit_with_stack after its generic_visit: _check_function, then the pop
_visit_with_stack_end ==
    /\ agenda # <<>>
    /\ Head(agenda).op = "check"
    /\ LET node == Here
           scope == _stack[Len(_stack)]
           found == _check_function(node, scope)
       IN  /\ errors' = errors \o found
           /\ _stack' = PopScope(_stack)
           /\ done' = Append(done, [path |-> Head(agenda).path, scope |-> scope,
                                     errors |-> found])
           /\ trace' = trace \o <<Event("check", node), Event("pop", node)>>
    /\ agenda' = Tail(agenda)
    /\ UNCHANGED <<tree, py38, _loop_count>>

visit_Return ==
    /\ Visiting({"Return"})
    /\ LET node == Here
           s1 == [_stack EXCEPT ![Len(_stack)].returns = Append(@, node)]
       IN  /\ _stack' = visit_expr(s1, node.value)
           /\ trace' = Append(trace, Event("visit", node))
    /\ agenda' = Tail(agenda)
    /\ UNCHANGED <<tree, py38, _loop_count, errors, done>>

visit_Assign ==
    /\ Visiting({"Assign"})
    /\ LET node == Here
       IN  /\ _stack' = AssignEffect(_stack, node)
           /\ trace' = Append(trace, Event("visit", node))
    /\ agenda' = Tail(agenda)
    /\ UNCHANGED <<tree, py38, _loop_count, errors, done>>

visit_Try ==
    /\ Visiting({"Try"})
    /\ LET node == Here
           s1 == IF py38 /\ _stack # <<>> /\ node.end_lineno # <<>>
                   THEN [_stack EXCEPT ![Len(_stack)].tries =
                            DictSet(@, node.lineno, node.end_lineno[1])]
                   ELSE _stack
       IN  /\ _stack' = HeaderEffect(s1, node)
           /\ agenda' = VisitItems(Head(agenda).path) \o Tail(agenda)
           /\ trace' = Append(trace, Event("visit", node))
    /\ UNCHANGED <<tree, py38, _loop_count, errors, done>>

\* _visit_loop up to its generic_visit
_visit_loop ==
    /\ Visiting(LoopKinds)
    /\ LET node == Here
           s1 == IF py38 /\ _stack # <<>> /\ node.end_lineno # <<>>
                   THEN [_stack EXCEPT ![Len(_stack)].loops =
                            DictSet(@, node.lineno, node.end_lineno[1])]
                   ELSE _stack
       IN  /\ _stack' = HeaderEffect(s1, node)
           /\ agenda' = VisitItems(Head(agenda).path)
                          \o (IF py38 THEN <<>> ELSE <<[op |-> "loop_end", path |-> Head(agenda).path]>>)
                          \o Tail(agenda)
           /\ trace' = Append(trace, Event("visit", node))
    /\ _loop_count' = IF py38 THEN _loop_count ELSE _loop_count + 1
    /\ UNCHANGED <<tree, py38, errors, done>>

\* _visit_loop after its generic_visit, before Python 3.8
_visit_loop_end ==
    /\ agenda # <<>>
    /\ Head(agenda).op = "loop_end"
    /\ _loop_count' = _loop_count - 1
    /\ agenda' = Tail(agenda)
    /\ UNCHANGED <<tree, py38, _stack, errors, trace, done>>

\* Every other statement has no handler: NodeVisitor.generic_visit
GenericKinds ==
    {"Module", "If", "With", "AsyncWith", "Expr", "Pass", "Raise", "Assert",
     "ExceptHandler"}

generic_visit ==
    /\ Visiting(GenericKinds)
    /\ LET node == Here
       IN  /\ _stack' = HeaderEffect(_stack, node)
           /\ agenda' = VisitItems(Head(agenda).path) \o Tail(agenda)
           /\ trace' = Append(trace, Event("visit", node))
    /\ UNCHANGED <<tree, py38, _loop_count, errors, done>>

Next ==
    \/ _visit_with_stack
    \/ _visit_with_stack_end
    \/ visit_Return
    \/ visit_Assign
    \/ visit_Try
    \/ _visit_loop
    \/ _visit_loop_end
    \/ generic_visit

-----------------------------------------------------------------------------
(* The inputs: every module of five families of programs, each within its   *)
(* bound on the number of statements.                                       *)

MaxFlat == 3
MaxWrap == 4
MaxSpine == 4
MaxScope == 6
MaxParser == 4

X == NameE("x")
Y == NameE("y")
One == ConstE("1")

AssignX == AssignS(X, One)                                    \* x = 1
AssignXY == AssignS(X, Y)                                     \* x = y
Unpack == AssignS(TupleE(<<X, Y>>), CallE(<<NameE("f")>>))    \* x, y = f()
Nested ==                                                     \* y, (x, z[0]) = 1, (1, 1)
    AssignS(TupleE(<<Y, TupleE(<<X, SubscriptE(<<NameE("z")>>)>>)>>),
            TupleE(<<One, TupleE(<<One, One>>)>>))
UseX == ExprS(CallE(<<NameE("f"), X>>))                       \* f(x)
ReturnBare == ReturnS(Absent)                                 \* return
ReturnNone == ReturnS(ConstE("None"))                         \* return None
ReturnOne == ReturnS(One)                                     \* return 1
ReturnX == ReturnS(X)                                         \* return x
AssertFalse == AssertS(ConstE("False"))                       \* assert False

Def(b) == Compound("FunctionDef", b, <<>>)

\* one function with a straight-line body
FlatLeaves ==
    {AssignX, AssignXY, Unpack, Nested, UseX, ReturnBare, ReturnNone, ReturnX}
FlatPrograms == { <<Def(b)>> : b \in BlocksUpTo(FlatLeaves, {}, MaxFlat) }

\* one function with loops and try statements around assignments and reads
WrapLeaves == {AssignX, UseX, ReturnX}
WrapKinds == {"ForInline", "While", "Try"}
WrapPrograms == { <<Def(b)>> : b \in BlocksUpTo(WrapLeaves, WrapKinds, MaxWrap) }

\* one function whose last statement nests if / for / with, `return 1` before
\* the last statement of a block
SpineLeaves == {ReturnOne, PassS, RaiseS, AssertFalse}
SpineKinds == {"If", "For", "With"}
SpinePrograms ==
    { <<Def(b)>> : b \in TailsUpTo({ReturnOne}, SpineLeaves, SpineKinds, MaxSpine) }

RECURSIVE ReturnOutsideFunction(_)
\* a `return` that no function encloses: not a program
ReturnOutsideFunction(ss) ==
    \E i \in 1..Len(ss) :
       \/ ss[i].kind = "Return"
       \/ /\ ss[i].kind \notin FunctionKinds
          /\ ReturnOutsideFunction(StmtChildren(ss[i]))

\* module-level statements, and functions in functions, each function with a
\* default that reads x
ScopeLeaves == {AssignX, ReturnX}
ScopeKinds == {"FunctionDefDefault"}
ScopePrograms ==
    { b \in BlocksUpTo(ScopeLeaves, ScopeKinds, MaxScope) : ~ReturnOutsideFunction(b) }

\* loops and try statements in and outside functions, for each sort of parser
ParserLeaves == {AssignX, ReturnX}
ParserKinds == {"FunctionDef", "While", "Try"}
ParserPrograms ==
    { b \in BlocksUpTo(ParserLeaves, ParserKinds, MaxParser) : ~ReturnOutsideFunction(b) }

Families == {"flat", "wrap", "spine", "scope", "parser"}

Programs(fam) ==
    CASE fam = "flat" -> FlatPrograms
      [] fam = "wrap" -> WrapPrograms
      [] fam = "spine" -> SpinePrograms
      [] fam = "scope" -> ScopePrograms
      [] fam = "parser" -> ParserPrograms

\* Python >= 3.8 gives every statement its end line ("ends"); a tree built by
\* hand may lack them ("no ends"); before 3.8 no tree has them ("legacy").
Parsers(fam) == IF fam = "parser" THEN {"ends", "no ends", "legacy"} ELSE {"ends"}

Parsed(b, parser) == IF parser = "ends" THEN Module(b) ELSE StripEnd(Module(b))

Init ==
    /\ \E fam \in Families :
          \E b \in Programs(fam), parser \in Parsers(fam) :
             /\ tree = Parsed(b, parser)
             /\ py38 = (parser # "legacy")
    /\ agenda = <<[op |-> "visit", path |-> <<>>]>>
    /\ _stack = <<>>
    /\ _loop_count = 0
    /\ errors = <<>>
    /\ trace = <<>>
    /\ done = <<>>

Spec == Init /\ [][Next]_vars

-----------------------------------------------------------------------------
(* What the properties speak of: the statements of a tree, the functions,   *)
(* the statements a function owns, and where a finding lies.                *)

Range(seq) == { seq[i] : i \in 1..Len(seq) }
Last(seq) == seq[Len(seq)]

RECURSIVE AllStmts(_)
\* a statement and every statement below it
AllStmts(n) == {n} \cup UNION { AllStmts(c) : c \in Range(StmtChildren(n)) }

RECURSIVE OwnOf(_)
\* the statements of a block and of its nested blocks, not going into functions
OwnOf(ss) ==
    UNION { {s} \cup (IF s.kind \in FunctionKinds THEN {} ELSE OwnOf(StmtChildren(s)))
            : s \in Range(ss) }

\* the statements of function f's own scope
OwnStmts(f) == OwnOf(StmtChildren(f))

Funcs == { n \in AllStmts(tree) : n.kind \in FunctionKinds }

PosOf(e) == <<e.lineno, e.col_offset>>

\* the positions a finding of function f's scope can carry
OwnPositions(f) ==
    { Pos(s) : s \in OwnStmts(f) }
    \cup { Pos(s.value) : s \in { t \in OwnStmts(f) : t.kind = "Return" /\ Present(t.value) } }

OfKind(es, kinds) == SelectSeq(es, LAMBDA e : e.kind \in kinds)
In(es, positions) == SelectSeq(es, LAMBDA e : PosOf(e) \in positions)

\* the findings so far that lie in function f's own scope
ErrorsOf(f) == In(errors, OwnPositions(f))

ValueKinds == {"ImplicitReturnValue", "ImplicitReturn", "UnnecessaryAssign"}

Finished == agenda = <<>>

\* function d.node went down the value branch of _check_function
ValueBranch(d) ==
    /\ d.scope.returns # <<>>
    /\ ~(Len(d.node.body) = 1 /\ d.node.body[1].kind = "Return")
    /\ \E r \in Range(d.scope.returns) :
          r.value.kind # "Absent" /\ ~(r.value.kind = "Constant" /\ r.value.value = "None")

\* the checks made so far: the function, its scope when checked, its findings
Records ==
    { [node |-> NodeAt(done[i].path), scope |-> done[i].scope,
       errors |-> done[i].errors] : i \in 1..Len(done) }

-----------------------------------------------------------------------------
\* C1: within one function scope, UnnecessaryReturnNone never comes together
\* with ImplicitReturnValue, ImplicitReturn or UnnecessaryAssign; findings of
\* a nested function count for the nested scope.
C1_BranchesExclusive ==
    /\ \A f \in Funcs :
          OfKind(ErrorsOf(f), {"UnnecessaryReturnNone"}) = <<>>
          \/ OfKind(ErrorsOf(f), ValueKinds) = <<>>
    /\ \A d \in Records :
          /\ d.errors = ErrorsOf(d.node)
          /\ OfKind(d.errors, {"UnnecessaryReturnNone"}) = <<>>
             \/ OfKind(d.errors, ValueKinds) = <<>>

\* a function flagged UnnecessaryReturnNone that also holds a bare return,
\* which the other branch would flag
C1_Witness ==
    \E d \in Records :
       /\ OfKind(d.errors, {"UnnecessaryReturnNone"}) # <<>>
       /\ \E r \in Range(d.scope.returns) : r.value.kind = "Absent"

\* C2: a function whose body is exactly one Return statement yields no
\* finding of any kind.
C2_SingleReturnSilent ==
    /\ \A f \in Funcs :
          (Len(f.body) = 1 /\ f.body[1].kind = "Return") => ErrorsOf(f) = <<>>
    /\ \A d \in Records :
          (Len(d.node.body) = 1 /\ d.node.body[1].kind = "Return") => d.errors = <<>>

\* the check of a function that is just `return None` has run
C2_Witness ==
    \E d \in Records :
       /\ Len(d.node.body) = 1
       /\ d.node.body[1].kind = "Return"
       /\ d.node.body[1].value.kind = "Constant"
       /\ d.node.body[1].value.value = "None"
       /\ d.scope.returns = <<d.node.body[1]>>

-----------------------------------------------------------------------------
RECURSIVE Reached(_)
\* The statements the terminal-path check examines, starting from the last
\* statement of a body: through an if with both branches, a for with an else,
\* and a with.
Reached(n) ==
    {n} \cup
    (IF n.kind = "If" /\ n.body # <<>> /\ n.orelse # <<>>
       THEN Reached(Last(n.body)) \cup Reached(Last(n.orelse))
     ELSE IF n.kind \in {"For", "AsyncFor"} /\ n.orelse # <<>>
       THEN Reached(Last(n.orelse))
     ELSE IF n.kind \in {"With", "AsyncWith"}
       THEN Reached(Last(n.body))
     ELSE {})

Positions(nodes) == { Pos(n) : n \in nodes }

\* the ImplicitReturn findings of check d that lie at or below statement n
ImplicitIn(d, n) == In(OfKind(d.errors, {"ImplicitReturn"}), Positions(AllStmts(n)))

ImplicitAt(n) == [kind |-> "ImplicitReturn", lineno |-> n.lineno, col_offset |-> n.col_offset]

\* statements that end a path, and simple statements that fall off the end
Terminal == {"Return", "Raise"}
FallsThrough == {"Pass", "Expr", "Assign"}

\* C3: the terminal-path check on an If: without an else, exactly one
\* ImplicitReturn, at the If, and nothing from inside it; with both branches,
\* nothing at the If itself and the findings of the consequent's last
\* statement followed by those of the alternative's last statement: none when
\* both end in return / raise, two when both fall through.
C3_IfBranchesIndependent ==
    \A d \in Records :
       ValueBranch(d) =>
          \A n \in Reached(Last(d.node.body)) :
             n.kind = "If" =>
                IF n.orelse = <<>>
                  THEN ImplicitIn(d, n) = <<ImplicitAt(n)>>
                  ELSE LET b == Last(n.body)
                           o == Last(n.orelse)
                       IN  /\ ImplicitIn(d, n) = ImplicitIn(d, b) \o ImplicitIn(d, o)
                           /\ (b.kind \in Terminal /\ o.kind \in Terminal)
                                 => ImplicitIn(d, n) = <<>>
                           /\ (b.kind \in FallsThrough /\ o.kind \in FallsThrough)
                                 => ImplicitIn(d, n) = <<ImplicitAt(b), ImplicitAt(o)>>

\* an If whose two branches both fall through has been checked: two findings
C3_Witness ==
    \E d \in Records :
       /\ ValueBranch(d)
       /\ \E n \in Reached(Last(d.node.body)) :
             /\ n.kind = "If"
             /\ n.orelse # <<>>
             /\ ImplicitIn(d, Last(n.body)) # <<>>
             /\ ImplicitIn(d, Last(n.orelse)) # <<>>
             /\ Len(ImplicitIn(d, n)) >= 2

\* the for / async for loops without an else that the terminal-path check reaches
BareLoops(d) ==
    { n \in Reached(Last(d.node.body)) :
         n.kind \in {"For", "AsyncFor"} /\ n.orelse = <<>> }

\* C4 as claimed: a for loop without an else that the terminal-path check
\* reaches is never flagged ImplicitReturn.
C4_LoopNeverFlagged ==
    \A d \in Records :
       ValueBranch(d) =>
          \A n \in BareLoops(d) : ImplicitAt(n) \notin Range(d.errors)

\* C4 amended: such a loop is flagged, once, at the loop itself, and nothing
\* inside the loop is flagged with it.
C4_LoopFlaggedOnce ==
    \A d \in Records :
       ValueBranch(d) =>
          \A n \in BareLoops(d) : ImplicitIn(d, n) = <<ImplicitAt(n)>>

\* a for loop without an else was the last statement of a checked function
\* that returns a value from inside the loop
C4_Witness ==
    \E d \in Records :
       /\ ValueBranch(d)
       /\ Last(d.node.body) \in BareLoops(d)
       /\ \E r \in Range(d.scope.returns) : r \in AllStmts(Last(d.node.body))

-----------------------------------------------------------------------------
SetMax(S) == CHOOSE m \in S : \A x \in S : x <= m
SetMin(S) == CHOOSE m \in S : \A x \in S : m <= x

\* the lines recorded for name v in a scope
Assigned(scope, v) == IF v \in DOMAIN scope.assigns THEN Range(scope.assigns[v]) ELSE {}
Reads(scope, v) == IF v \in DOMAIN scope.refs THEN Range(scope.refs[v]) ELSE {}

\* the returns of a checked function whose value is a bare name
NameReturns(d) == { r \in Range(d.scope.returns) : r.value.kind = "Name" }

UnnecessaryAt(e) ==
    [kind |-> "UnnecessaryAssign", lineno |-> e.lineno, col_offset |-> e.col_offset]

Flagged(d, r) == UnnecessaryAt(r.value) \in Range(d.errors)

\* The window rule: no read of v other than the one at line l lies after the
\* last assignment at or before l and at or before the next assignment.
OnlyObserver(scope, v, l) ==
    LET before == SetMax({ a \in Assigned(scope, v) : a <= l } \cup {0})
        later == { a \in Assigned(scope, v) : a > l }
    IN  ~\E r \in Reads(scope, v) \ {l} :
           IF later # {} THEN before < r /\ r <= SetMin(later) ELSE before < r

NoSpans(scope) == DOMAIN scope.tries = {} /\ DOMAIN scope.loops = {}

\* the body `v = <constant>; return v`
AssignThenReturn(f) ==
    /\ Len(f.body) = 2
    /\ f.body[1].kind = "Assign"
    /\ f.body[1].target.kind = "Name"
    /\ f.body[1].value.kind = "Constant"
    /\ f.body[2].kind = "Return"
    /\ f.body[2].value.kind = "Name"
    /\ f.body[2].value.id = f.body[1].target.id

\* C5: in a scope with no try or loop span, `return v` at line l is flagged
\* UnnecessaryAssign exactly when v has an assignment in the scope and the
\* window rule finds no other read; `v = 1; return v` yields exactly that one
\* finding.
C5_WindowRule ==
    \A d \in Records :
       NoSpans(d.scope) =>
          /\ \A r \in NameReturns(d) :
                Flagged(d, r) <=>
                   /\ Assigned(d.scope, r.value.id) # {}
                   /\ OnlyObserver(d.scope, r.value.id, r.value.lineno)
          /\ AssignThenReturn(d.node) => d.errors = <<UnnecessaryAt(d.node.body[2].value)>>

-----------------------------------------------------------------------------
RECURSIVE ExprNames(_)
\* the names an expression holds
ExprNames(e) ==
    IF e.kind = "Name" THEN {e.id}
    ELSE IF e.kind \in Atoms THEN {}
    ELSE UNION { ExprNames(e.elts[i]) : i \in 1..Len(e.elts) }

RECURSIVE TargetBinds(_)
\* the simple names of an assignment target, through nested tuples
TargetBinds(t) ==
    IF t.kind = "Name" THEN {t.id}
    ELSE IF t.kind = "Tuple" THEN UNION { TargetBinds(t.elts[i]) : i \in 1..Len(t.elts) }
    ELSE {}

RECURSIVE TargetReads(_)
\* the names read by an assignment target: those below a subscript and the like
TargetReads(t) ==
    IF t.kind = "Name" THEN {}
    ELSE IF t.kind = "Tuple" THEN UNION { TargetReads(t.elts[i]) : i \in 1..Len(t.elts) }
    ELSE ExprNames(t)

\* unpacking something that is not a tuple literal: x, y = f()
Unpacking(s) == s.kind = "Assign" /\ s.target.kind = "Tuple" /\ s.value.kind # "Tuple"

\* statement s assigns v, or reads v, in a way the walk records
Touches(s, v) ==
    IF s.kind = "Assign"
      THEN \/ v \in ExprNames(s.value)
           \/ ~Unpacking(s) /\ v \in TargetBinds(s.target) \cup TargetReads(s.target)
      ELSE v \in ExprNames(s.target) \cup ExprNames(s.value)

\* Some try / for / while statement of d's own scope that has its end line
\* holds, in its blocks, a statement of the same scope that touches v.
Wrapped(d, v) ==
    \E w \in OwnStmts(d.node) :
       /\ w.kind \in LoopKinds \cup {"Try"}
       /\ w.end_lineno # <<>>
       /\ \E s \in OwnOf(StmtChildren(w)) :
             /\ s.kind \notin FunctionKinds
             /\ Touches(s, v)

\* C6: once an assignment or a read of v sits inside a try or a
\* loop that has its end line, a one-line loop included, `return v` is not
\* flagged UnnecessaryAssign.
C6_WrappedNeverFlagged ==
    \A d \in Records :
       py38 => \A r \in NameReturns(d) : Wrapped(d, r.value.id) => ~Flagged(d, r)

-----------------------------------------------------------------------------
\* position p comes before position q in the source
Before(p, q) == p[1] < q[1] \/ (p[1] = q[1] /\ p[2] < q[2])

\* the function whose scope finding e belongs to
Owner(e) == CHOOSE f \in Funcs : PosOf(e) \in OwnPositions(f)

\* the scope of f is left before the scope of g: f lies in g, or ends before g
ExitsBefore(f, g) == (f # g /\ f \in AllStmts(g)) \/ EndLine(f) < g.lineno

\* the step of _check_function that yields a finding of this kind
Phase(e) ==
    CASE e.kind \in {"UnnecessaryReturnNone", "ImplicitReturnValue"} -> 1
      [] e.kind = "ImplicitReturn" -> 2
      [] e.kind = "UnnecessaryAssign" -> 3

\* C7 as claimed: findings come in scope-exit order, and within one function
\* scope in source order of the nodes they lie at, whatever their kind.
C7_SourceOrderInScope ==
    \A i, j \in 1..Len(errors) :
       i < j =>
          LET f == Owner(errors[i])
              g == Owner(errors[j])
          IN  IF f = g THEN Before(PosOf(errors[i]), PosOf(errors[j]))
              ELSE ExitsBefore(f, g)

\* C7 amended: findings come in scope-exit order, and within one function
\* scope by step of the check (ImplicitReturnValue, then ImplicitReturn, then
\* UnnecessaryAssign), in source order within one step.
C7_ScopeExitThenPhaseOrder ==
    \A i, j \in 1..Len(errors) :
       i < j =>
          LET f == Owner(errors[i])
              g == Owner(errors[j])
          IN  IF f = g
                THEN \/ Phase(errors[i]) < Phase(errors[j])
                     \/ /\ Phase(errors[i]) = Phase(errors[j])
                        /\ Before(PosOf(errors[i]), PosOf(errors[j]))
                ELSE ExitsBefore(f, g)

\* the walk is over with findings of a nested function followed by findings
\* of its enclosing function, the latter in an order that is not source order
C7_Witness ==
    /\ Finished
    /\ \E i, j \in 1..Len(errors) :
          /\ i < j
          /\ Owner(errors[i]) # Owner(errors[j])
          /\ Owner(errors[i]) \in AllStmts(Owner(errors[j]))
    /\ \E i, j \in 1..Len(errors) :
          /\ i < j
          /\ Owner(errors[i]) = Owner(errors[j])
          /\ Phase(errors[i]) < Phase(errors[j])
          /\ Before(PosOf(errors[j]), PosOf(errors[i]))

-----------------------------------------------------------------------------
\* the functions whose walk is under way, innermost first
OpenChecks == SelectSeq(agenda, LAMBDA a : a.op = "check")

\* the function that scope number k of the stack was pushed for
FunctionOf(k) == NodeAt(OpenChecks[Len(OpenChecks) - k + 1].path)

\* the nodes of function f's own body, nested function definitions left out;
\* with `header`, also f itself, for the expressions of its header
ScopeNodes(f, header) ==
    (IF header THEN {f} ELSE {}) \cup { s \in OwnStmts(f) : s.kind \notin FunctionKinds }

\* every record of the scope comes from one of the nodes
RecordsFrom(scope, nodes) ==
    /\ \A v \in DOMAIN scope.refs :
          \A l \in Range(scope.refs[v]) :
             \E s \in nodes : s.lineno = l /\ v \in ExprNames(s.target) \cup ExprNames(s.value)
    /\ \A v \in DOMAIN scope.assigns :
          \A l \in Range(scope.assigns[v]) :
             \E s \in nodes : s.kind = "Assign" /\ s.lineno = l /\ v \in TargetBinds(s.target)
    /\ \A l \in DOMAIN scope.tries :
          \E s \in nodes : s.kind = "Try" /\ s.lineno = l /\ scope.tries[l] = EndLine(s)
    /\ \A l \in DOMAIN scope.loops :
          \E s \in nodes : s.kind \in LoopKinds /\ s.lineno = l /\ scope.loops[l] = EndLine(s)
    /\ \A r \in Range(scope.returns) : r \in nodes /\ r.kind = "Return"

\* how often r occurs in a sequence
Count(r, seq) == Cardinality({ i \in 1..Len(seq) : seq[i] = r })

AllReturns == { n \in AllStmts(tree) : n.kind = "Return" }

\* a checked function holds each Return of its own body once and no other
\* Return; when the walk is over every Return lies in exactly one scope
ReturnsInOneScope ==
    /\ \A i \in 1..Len(done) :
          \A r \in AllReturns :
             Count(r, done[i].scope.returns)
                = IF r \in OwnStmts(NodeAt(done[i].path)) THEN 1 ELSE 0
    /\ Finished =>
          \A r \in AllReturns :
             Cardinality({ i \in 1..Len(done) : r \in Range(done[i].scope.returns) }) = 1

\* a step changes no scope but the top one; a push and a pop change none
OnlyTopScopeChanges ==
    \A k \in 1..Len(_stack) :
       (k < Len(_stack) \/ Len(_stack') > Len(_stack))
          => (k <= Len(_stack') /\ _stack'[k] = _stack[k])

\* C8 as claimed: a scope holds records of the nodes of its function's body
\* only.
C8_RecordsFromBodyOnly ==
    /\ Len(OpenChecks) = Len(_stack)
    /\ \A k \in 1..Len(_stack) :
          RecordsFrom(_stack[k], ScopeNodes(FunctionOf(k), FALSE))

\* C8 amended: a scope holds records of its function's header and own body
\* only, nested functions left out; no step of the walk of a nested function
\* changes a scope below the top one; every Return lies in exactly one scope,
\* that of the nearest function around it.
C8_ScopeIsolation ==
    /\ [](/\ Len(OpenChecks) = Len(_stack)
          /\ \A k \in 1..Len(_stack) :
                RecordsFrom(_stack[k], ScopeNodes(FunctionOf(k), TRUE))
          /\ ReturnsInOneScope)
    /\ [][OnlyTopScopeChanges]_vars

\* a nested function that read names in its header and body has been checked
\* while the scope of the function around it holds records of its own
C8_Witness ==
    /\ Len(_stack) >= 1
    /\ _stack[1].returns # <<>>
    /\ DOMAIN _stack[1].assigns # {}
    /\ \E i \in 1..Len(done) :
          /\ Len(done[i].path) > 1
          /\ done[i].scope.returns # <<>>
          /\ DOMAIN done[i].scope.assigns # {}
          /\ NodeAt(done[i].path).lineno \in Reads(done[i].scope, "x")

-----------------------------------------------------------------------------
\* the number of function definitions around the node at `path`
Enclosing(path) ==
    Cardinality({ n \in 0..(Len(path) - 1) :
                     NodeAt(SubSeq(path, 1, n)).kind \in FunctionKinds })

\* where event e stands in the trace
IndexOf(e) == CHOOSE i \in 1..Len(trace) : trace[i] = e

Happened(e) == e \in Range(trace)

\* the nodes below n
Below(n) == AllStmts(n) \ {n}

\* The stack is as deep as the number of functions around the node the walk
\* is at, the function being checked included.
DepthMatchesNesting ==
    /\ agenda # <<>> =>
          Len(_stack) = Enclosing(Head(agenda).path)
                          + (IF Head(agenda).op = "check" THEN 1 ELSE 0)
    /\ Finished => _stack = <<>>

\* Between the push and the check of a function lie the visits of all nodes
\* below it, the whole cycles of the functions nested in it, and nothing else;
\* the push follows the function's visit and the pop follows its check.
CycleInOrder(f) ==
    /\ Happened(Event("push", f)) =>
          /\ Happened(Event("visit", f))
          /\ IndexOf(Event("push", f)) = IndexOf(Event("visit", f)) + 1
          /\ \A k \in (IndexOf(Event("push", f)) + 1)..Len(trace) :
                (Happened(Event("check", f)) => k < IndexOf(Event("check", f)))
                   => trace[k].pos \in Positions(Below(f))
    /\ Happened(Event("check", f)) =>
          /\ Happened(Event("push", f))
          /\ IndexOf(Event("push", f)) < IndexOf(Event("check", f))
          /\ Happened(Event("pop", f))
          /\ IndexOf(Event("pop", f)) = IndexOf(Event("check", f)) + 1
          /\ \A n \in Below(f) :
                /\ Happened(Event("visit", n))
                /\ IndexOf(Event("push", f)) < IndexOf(Event("visit", n))
                /\ IndexOf(Event("visit", n)) < IndexOf(Event("check", f))
                /\ n.kind \in FunctionKinds =>
                      /\ Happened(Event("pop", n))
                      /\ IndexOf(Event("pop", n)) < IndexOf(Event("check", f))
    /\ Happened(Event("pop", f)) =>
          \A k \in (IndexOf(Event("pop", f)) + 1)..Len(trace) :
             trace[k].pos \notin Positions(AllStmts(f))

\* C9: for every function the events come in the order push, walk of the
\* whole subtree (the cycles of nested functions included), check, pop; the
\* pop comes before any further node of the parent; the stack depth is the
\* number of functions around the node being visited; the stack is empty
\* when the walk is over.
C9_LifecycleOrdering ==
    /\ DepthMatchesNesting
    /\ \A i, j \in 1..Len(trace) : trace[i] = trace[j] => i = j
    /\ \A f \in Funcs : CycleInOrder(f)

\* the walk is over, and a function that holds a function was checked after it
C9_Witness ==
    /\ Finished
    /\ \E f, g \in Funcs :
          /\ g \in Below(f)
          /\ Below(g) # {}
          /\ Happened(Event("pop", g))
          /\ Happened(Event("pop", f))
          /\ \E n \in Below(f) \ AllStmts(g) :
                IndexOf(Event("pop", g)) < IndexOf(Event("visit", n))

-----------------------------------------------------------------------------
RECURSIVE TargetNames(_)
\* the simple names of an assignment target in order, through nested tuples
TargetNames(t) ==
    IF t.kind = "Name" THEN <<t.id>>
    ELSE IF t.kind = "Tuple" /\ t.elts # <<>>
      THEN TargetNames(Head(t.elts)) \o TargetNames([t EXCEPT !.elts = Tail(@)])
    ELSE <<>>

RECURSIVE AppendEach(_, _, _)
\* the map d after line l was appended under each of the names
AppendEach(d, names, l) ==
    IF names = <<>> THEN d
    ELSE AppendEach(DictAppend(d, Head(names), l), Tail(names), l)

\* the lines recorded for the reads of v, in the order recorded
ReadLines(scope, v) == IF v \in DOMAIN scope.refs THEN scope.refs[v] ELSE <<>>

\* The walk is at an Assign.
AtAssign == agenda # <<>> /\ Head(agenda).op = "visit" /\ Here.kind = "Assign"

\* What the visit of an Assign does to the top scope.  With `always`, every
\* Assign that is not an unpacking records its targets; without, only where
\* targets are recorded at all: on Python >= 3.8, or outside every loop.
AssignRecorded(always) ==
    AtAssign =>
       LET node == Here
       IN  IF _stack = <<>> THEN _stack' = <<>>
           ELSE /\ Len(_stack') = Len(_stack)
                /\ LET old == _stack[Len(_stack)]
                       new == _stack'[Len(_stack)]
                   IN  /\ new.assigns =
                             IF Unpacking(node) \/ ~(always \/ py38 \/ _loop_count = 0)
                               THEN old.assigns
                               ELSE AppendEach(old.assigns, TargetNames(node.target),
                                               node.lineno)
                       /\ \A v \in ExprNames(node.value) :
                             Count(node.lineno, ReadLines(new, v))
                                > Count(node.lineno, ReadLines(old, v))
                       /\ new.returns = old.returns
                       /\ new.tries = old.tries
                       /\ new.loops = old.loops

\* the assignments of function f's own body that bind v
Binders(f, v) ==
    { s \in OwnStmts(f) : s.kind = "Assign" /\ v \in TargetBinds(s.target) }

\* a returned name that only unpackings bind is not flagged
UnpackedNeverFlagged ==
    \A d \in Records :
       \A r \in NameReturns(d) :
          (\A s \in Binders(d.node, r.value.id) : Unpacking(s)) => ~Flagged(d, r)

\* C10 as claimed: an unpacking of something that is not a tuple literal adds
\* nothing to assigns while the reads of its right-hand side are recorded, and
\* a name only such unpackings bind is never flagged; every other Assign
\* appends its line under each simple name of its target; with an empty stack
\* nothing is recorded.
C10_EveryTargetRecorded ==
    /\ []UnpackedNeverFlagged
    /\ [][AssignRecorded(TRUE)]_vars

\* C10 amended: the same, where every other Assign appends its line only on
\* Python >= 3.8 or outside every loop; before 3.8 an Assign inside a loop
\* adds nothing to assigns.
C10_TargetRecordedOutsideLegacyLoop ==
    /\ []UnpackedNeverFlagged
    /\ [][AssignRecorded(FALSE)]_vars

\* `x, y = f()` was walked in a function: it recorded the read of f and
\* nothing for x, and the function's `return x` was not flagged
C10_Witness ==
    \E d \in Records :
       /\ \E s \in OwnStmts(d.node) : Unpacking(s) /\ "x" \in TargetBinds(s.target)
       /\ "x" \notin DOMAIN d.scope.assigns
       /\ "f" \in DOMAIN d.scope.refs
       /\ \E r \in NameReturns(d) : r.value.id = "x" /\ ~Flagged(d, r)

=============================================================================
